---- MODULE Spec2Model ----
(***************************************************************************)
(* ComfyUIClient (src/src/lib/comfyui-client.ts): the reconnecting         *)
(* WebSocket channel, the tracked prompt id and output resolution.         *)
(*                                                                         *)
(* The fields of the class are the variables of the same name.  A handler *)
(* is an operator from a world (a record of all variables) to a world, so *)
(* that a handler calling another (updateSettings -> disconnect, connect   *)
(* -> connectWebSocket, the timer callback -> connectWebSocket) is one     *)
(* step.  Strings that the code inspects (URLs) are sequences of           *)
(* one-character strings.  null is Null for strings and 0 for a socket or  *)
(* timer handle (handles are positive).                                    *)
(***************************************************************************)
EXTENDS Integers, Sequences, FiniteSets, TLC

VARIABLES
    settings,           \* this.settings
    clientId,           \* this.clientId
    ws,                 \* this.ws: a socket id, 0 for null
    currentPromptId,    \* this.currentPromptId
    headers,            \* this.headers
    reconnectAttempts,  \* this.reconnectAttempts
    reconnectTimeout,   \* this.reconnectTimeout: a timer id, 0 for null
    isConnecting,       \* this.isConnecting
    isDisconnected,     \* this.isDisconnected
    sockets,            \* the WebSocket objects not yet closed: id -> [readyState, url, failing]
    created,            \* number of WebSocket objects constructed so far
    timers,             \* pending window.setTimeout callbacks: {[id, delay]}
    pendingSubmits,     \* POST /prompt requests awaiting their response
    fetches,            \* GET /history/{id} requests awaiting their response: a sequence of ids
    uploads,            \* POST /upload/image requests awaiting their response
    issued,             \* the server: how many job ids it has assigned so far
    accepted,           \* the server: the ids of the jobs it queued whose response is in flight
    emitted,            \* onStatusChange / onImageGenerated calls of the last step, in order
    sent,               \* the HTTP requests issued by the last step, in order
    lastOp,             \* the operation or event of the last step
    lastMsg,            \* the message of the last step, if it was a message event
    lastCall,           \* history: the caller's last call of connect/disconnect/updateSettings
    cancelled,          \* history: the timers that the last step cancelled
    wasDisconnected,    \* history: isDisconnected before the last step
    abnormalRun,        \* history: consecutive abnormal closures (see AbnormalRunAfter)
    imaged,             \* history: the jobs whose image was handed to onImageGenerated
    appStatus,          \* App.tsx: status.type of the React state that setStatus sets
    tracked             \* the histories that this run records: a subset of
                        \* {"calls", "run", "msg", "jobs"}, with "app" if the
                        \* client is the one that App.tsx mounts

vars == <<settings, clientId, ws, currentPromptId, headers, reconnectAttempts,
          reconnectTimeout, isConnecting, isDisconnected, sockets, created, timers,
          pendingSubmits, fetches, uploads, issued, accepted, emitted, sent, lastOp, lastMsg,
          lastCall, cancelled, wasDisconnected, abnormalRun, imaged, appStatus, tracked>>

\* ---------------------------------------------------------------- bounds

\* WebSocket objects constructed in one run of the general specification
MaxSockets == 2
\* WebSocket objects constructed in one run of the retry specification
MaxRetrySockets == 6
\* WebSocket objects constructed in one run of the job specification
MaxJobSockets == 2
\* WebSocket objects constructed in one run of the authentication specification
MaxAuthSockets == 1
\* HTTP requests of one kind in flight at once
MaxInFlight == 1
\* The largest max of a progress event (besides the 30 of 120 of the specification)
MaxProgress == 8

\* ---------------------------------------------------------------- strings

Null == "null"

Str_http  == <<"h","t","t","p",":","/","/">>
Str_https == <<"h","t","t","p","s",":","/","/">>
Str_ws    == <<"w","s",":","/","/">>
Str_wss   == <<"w","s","s",":","/","/">>
Str_localhost == <<"l","o","c","a","l","h","o","s","t">>
Str_xio   == <<"x",".","i","o">>
Str_true  == <<"t","r","u","e">>
Str_false == <<"f","a","l","s","e">>
Str_wsPath == <<"w","s","?","c","l","i","e","n","t","I","d","=">>

\* String.prototype.includes
includes(s, sub) ==
    \E i \in 0..(Len(s) - Len(sub)) : SubSeq(s, i + 1, i + Len(sub)) = sub

startsWith(s, pre) == Len(s) >= Len(pre) /\ SubSeq(s, 1, Len(pre)) = pre

\* s.replace(/\/+$/, '')
RECURSIVE stripTrailingSlashes(_)
stripTrailingSlashes(s) ==
    IF s # <<>> /\ s[Len(s)] = "/" THEN stripTrailingSlashes(SubSeq(s, 1, Len(s) - 1)) ELSE s

\* s.replace(/^\/+/, '')
RECURSIVE stripLeadingSlashes(_)
stripLeadingSlashes(s) ==
    IF s # <<>> /\ s[1] = "/" THEN stripLeadingSlashes(Tail(s)) ELSE s

normalizeUrl(baseUrl, path) ==
    stripTrailingSlashes(baseUrl) \o <<"/">> \o stripLeadingSlashes(path)

\* ---------------------------------------------------------------- settings

\* The own keys of a ComfyUISettings object literal, in the order of the interface
KeysDeclared == <<"baseUrl", "wsUrl", "cfAccessClientId", "cfAccessClientSecret", "useCloudflareAccess">>
\* The same keys when the optional credentials were added to the object last
KeysAppended == <<"baseUrl", "wsUrl", "useCloudflareAccess", "cfAccessClientId", "cfAccessClientSecret">>

MkSettings(base, wsu, id, secret, use, keys) ==
    [baseUrl |-> base, wsUrl |-> wsu, cfAccessClientId |-> id,
     cfAccessClientSecret |-> secret, useCloudflareAccess |-> use, keys |-> keys]

SettingsLocal    == MkSettings(Str_http \o Str_localhost, Str_ws \o Str_localhost, <<>>, <<>>, Str_false, KeysDeclared)
SettingsRemote   == MkSettings(Str_https \o Str_xio \o <<"/">>, Str_wss \o Str_xio \o <<"/">>, <<"i">>, <<"s">>, Str_true, KeysDeclared)
SettingsReordered == [SettingsRemote EXCEPT !.keys = KeysAppended]
SettingsNoBase   == MkSettings(<<>>, <<>>, <<>>, <<>>, Str_false, KeysDeclared)
SettingsNoWs     == MkSettings(Str_xio, <<>>, <<>>, <<>>, Str_false, KeysDeclared)

AllSettings == {SettingsLocal, SettingsRemote, SettingsReordered, SettingsNoBase, SettingsNoWs}
RetrySettings == {SettingsLocal, SettingsRemote}

\* The endpoints of the authentication settings, host[:port] after the scheme.
\* Reached over http: localhost:8188, 127.0.0.1:8188, 192.168.1.5, 10.0.0.5, 10.1.2.3, 172.16.0.9, 172.20.0.9
HttpHosts ==
    {<<"l","o","c","a","l","h","o","s","t",":","8","1","8","8">>,
     <<"1","2","7",".","0",".","0",".","1",":","8","1","8","8">>,
     <<"1","9","2",".","1","6","8",".","1",".","5">>,
     <<"1","0",".","0",".","0",".","5">>,
     <<"1","0",".","1",".","2",".","3">>,
     <<"1","7","2",".","1","6",".","0",".","9">>,
     <<"1","7","2",".","2","0",".","0",".","9">>}
\* Reached over https: example.com, 210.0.0.7
HttpsHosts ==
    {<<"e","x","a","m","p","l","e",".","c","o","m">>,
     <<"2","1","0",".","0",".","0",".","7">>}

AuthEndpoints == {<<Str_http, h>> : h \in HttpHosts} \cup {<<Str_https, h>> : h \in HttpsHosts}

\* The credentials of the settings panel <<id, secret, switch>>: complete and
\* switched on, and with one of the three missing
AuthCredentials ==
    {<<(<<"i">>), (<<"s">>), Str_true>>, <<(<<"i">>), (<<"s">>), Str_false>>,
     <<(<<>>), (<<"s">>), Str_true>>, <<(<<"i">>), (<<>>), Str_true>>}

AuthSettings ==
    {MkSettings(e[1] \o e[2], (IF e[1] = Str_http THEN Str_ws ELSE Str_wss) \o e[2], c[1], c[2], c[3], KeysDeclared) :
        e \in AuthEndpoints, c \in AuthCredentials}

\* JSON.stringify of a settings object: the key/value pairs in the object's key order
JSON_stringify(s) == [i \in 1..Len(s.keys) |-> <<s.keys[i], s[s.keys[i]]>>]

\* Two settings objects with the same value under every key
SameContent(a, b) == \A k \in {KeysDeclared[i] : i \in 1..Len(KeysDeclared)} : a[k] = b[k]

isLocalDevelopment(s) ==
    \/ includes(s.baseUrl, Str_localhost)
    \/ includes(s.baseUrl, <<"1","2","7",".","0",".","0",".","1">>)
    \/ includes(s.baseUrl, <<"1","9","2",".","1","6","8",".">>)
    \/ includes(s.baseUrl, <<"1","0",".","0",".">>)
    \/ includes(s.baseUrl, <<"1","7","2",".","1","6",".">>)

\* The credentials are attached (the condition shared by updateHeaders and uploadImage)
AttachesAuth(s) ==
    /\ s.useCloudflareAccess = Str_true
    /\ s.cfAccessClientId # <<>>
    /\ s.cfAccessClientSecret # <<>>
    /\ ~isLocalDevelopment(s)

NoHeader == <<>>

deriveHeaders(s) ==
    [contentType |-> "application/json",
     cfId |-> IF AttachesAuth(s) THEN s.cfAccessClientId ELSE NoHeader,
     cfSecret |-> IF AttachesAuth(s) THEN s.cfAccessClientSecret ELSE NoHeader]

\* ---------------------------------------------------------------- worlds

World ==
    [settings |-> settings, clientId |-> clientId, ws |-> ws,
     currentPromptId |-> currentPromptId, headers |-> headers,
     reconnectAttempts |-> reconnectAttempts, reconnectTimeout |-> reconnectTimeout,
     isConnecting |-> isConnecting, isDisconnected |-> isDisconnected,
     sockets |-> sockets, created |-> created, timers |-> timers,
     pendingSubmits |-> pendingSubmits, fetches |-> fetches, uploads |-> uploads,
     issued |-> issued, accepted |-> accepted, emitted |-> <<>>, sent |-> <<>>]

Becomes(w) ==
    /\ settings' = w.settings
    /\ clientId' = w.clientId
    /\ ws' = w.ws
    /\ currentPromptId' = w.currentPromptId
    /\ headers' = w.headers
    /\ reconnectAttempts' = w.reconnectAttempts
    /\ reconnectTimeout' = w.reconnectTimeout
    /\ isConnecting' = w.isConnecting
    /\ isDisconnected' = w.isDisconnected
    /\ sockets' = w.sockets
    /\ created' = w.created
    /\ timers' = w.timers
    /\ pendingSubmits' = w.pendingSubmits
    /\ fetches' = w.fetches
    /\ uploads' = w.uploads
    /\ issued' = w.issued
    /\ accepted' = w.accepted
    /\ emitted' = w.emitted
    /\ sent' = w.sent

\* A status: its type, which of the code's messages it carries, the number that the
\* message interpolates (0 if none)
St(type, message, n) == [type |-> type, message |-> message, n |-> n, url |-> <<>>, text |-> <<>>]

\* A status whose message is built from parts of a response: text is that message
StText(type, message, text) == [type |-> type, message |-> message, n |-> 0, url |-> <<>>, text |-> text]

\* this.onStatusChange?.(status)
onStatusChange(w, status) == [w EXCEPT !.emitted = Append(@, status)]

\* this.onImageGenerated?.(imageUrl)
onImageGenerated(w, imageUrl) ==
    [w EXCEPT !.emitted = Append(@, [type |-> "onImageGenerated", message |-> "", n |-> 0, url |-> imageUrl, text |-> <<>>])]

maxReconnectAttempts == 5

updateHeaders(w) == [w EXCEPT !.headers = deriveHeaders(w.settings)]

\* ---------------------------------------------------------------- the browser

\* new WebSocket(url) throws a SyntaxError for a URL it cannot use.  A url whose
\* scheme is ws: or wss: is accepted; any other is rejected by user agents that
\* require an absolute ws(s) URL and resolved against the page by newer ones.
ConstructorOutcomes(url) ==
    IF startsWith(url, Str_ws) \/ startsWith(url, Str_wss) THEN {"ok"} ELSE {"ok", "throws"}

\* WebSocket.close() on the socket with this id
wsClose(socks, id) ==
    IF id \notin DOMAIN socks THEN socks
    ELSE IF socks[id].readyState = "CONNECTING"
         THEN [socks EXCEPT ![id].readyState = "CLOSING", ![id].failing = TRUE]
    ELSE IF socks[id].readyState = "OPEN"
         THEN [socks EXCEPT ![id].readyState = "CLOSING"]
    ELSE socks

\* The socket is gone once its close event has been dispatched
Closed(socks, id) == [s \in DOMAIN socks \ {id} |-> socks[s]]

\* window.setTimeout returns a handle that names no pending timer
NewTimerId(w) == CHOOSE n \in 1..(Cardinality(w.timers) + 1) : \A t \in w.timers : t.id # n

clearTimeout(w, id) == [w EXCEPT !.timers = {t \in @ : t.id # id}]

\* Math.min(3000 * Math.pow(2, attempts), 48000)
RECURSIVE Pow2(_)
Pow2(n) == IF n = 0 THEN 1 ELSE 2 * Pow2(n - 1)
Min(a, b) == IF a < b THEN a ELSE b
backoffDelay(attempts) == Min(3000 * Pow2(attempts), 48000)

\* ---------------------------------------------------------------- connection

connectWebSocket(w, outcome) ==
    IF w.isConnecting \/ w.isDisconnected THEN w
    ELSE IF w.reconnectAttempts >= maxReconnectAttempts
    THEN onStatusChange(w, St("error", "max_attempts", maxReconnectAttempts))
    ELSE LET wsUrl == normalizeUrl(w.settings.wsUrl, Str_wsPath \o w.clientId)
             id == w.created + 1
         IN IF outcome = "throws"
            THEN onStatusChange([w EXCEPT !.isConnecting = FALSE,
                                          !.reconnectAttempts = @ + 1],
                                St("error", "establish_failed", 0))
            ELSE [w EXCEPT !.isConnecting = TRUE,
                           !.ws = id,
                           !.created = id,
                           !.sockets = @ @@ (id :> [readyState |-> "CONNECTING",
                                                    url |-> wsUrl, failing |-> FALSE])]

\* connect() that leaves the explicit-disconnect flag as it is
connect_keepsFlag(w, outcome) ==
    IF w.settings.baseUrl # <<>>
    THEN connectWebSocket(w, outcome)
    ELSE onStatusChange(w, St("error", "url_not_configured", 0))

connect(w, outcome) ==
    IF w.settings.baseUrl # <<>>
    THEN connectWebSocket([w EXCEPT !.isDisconnected = FALSE], outcome)
    ELSE onStatusChange(w, St("error", "url_not_configured", 0))

\* disconnect() that forgets to cancel the pending reconnect
disconnect_keepsTimer(w) ==
    LET w1 == [w EXCEPT !.isDisconnected = TRUE]
    IN IF w1.ws # 0
       THEN [w1 EXCEPT !.sockets = wsClose(@, w1.ws), !.ws = 0]
       ELSE w1

\* disconnect() that also forgets the tracked job
disconnect_forgetsJob(w) ==
    LET w1 == [w EXCEPT !.isDisconnected = TRUE, !.currentPromptId = Null]
        w2 == IF w1.reconnectTimeout # 0
              THEN [clearTimeout(w1, w1.reconnectTimeout) EXCEPT !.reconnectTimeout = 0]
              ELSE w1
    IN IF w2.ws # 0
       THEN [w2 EXCEPT !.sockets = wsClose(@, w2.ws), !.ws = 0]
       ELSE w2

disconnect(w) ==
    LET w1 == [w EXCEPT !.isDisconnected = TRUE]
        w2 == IF w1.reconnectTimeout # 0
              THEN [clearTimeout(w1, w1.reconnectTimeout) EXCEPT !.reconnectTimeout = 0]
              ELSE w1
    IN IF w2.ws # 0
       THEN [w2 EXCEPT !.sockets = wsClose(@, w2.ws), !.ws = 0]
       ELSE w2

updateSettings_staleHeaders(w, newSettings) ==
    IF JSON_stringify(w.settings) # JSON_stringify(newSettings)
    THEN [updateHeaders(disconnect(w)) EXCEPT !.settings = newSettings,
                                              !.reconnectAttempts = 0,
                                              !.isDisconnected = FALSE,
                                              !.isConnecting = FALSE]
    ELSE w

updateSettings(w, newSettings) ==
    IF JSON_stringify(w.settings) # JSON_stringify(newSettings)
    THEN LET w1 == disconnect(w)
             w2 == updateHeaders([w1 EXCEPT !.settings = newSettings])
         IN [w2 EXCEPT !.reconnectAttempts = 0,
                       !.isDisconnected = FALSE,
                       !.isConnecting = FALSE]
    ELSE w

onopen_keepsCount(w) ==
    onStatusChange([w EXCEPT !.isConnecting = FALSE], St("connected", "connected", 0))

onopen(w) ==
    onStatusChange([w EXCEPT !.isConnecting = FALSE, !.reconnectAttempts = 0],
                   St("connected", "connected", 0))

\* ws.onerror that does not count the failed attempt
onerror_noCount(w) ==
    LET w1 == [w EXCEPT !.isConnecting = FALSE]
    IN onStatusChange(w1, St("error", "ws_failed", w1.reconnectAttempts))

\* ws.onerror that schedules the reconnect itself
onerror_schedules(w) ==
    LET w1 == [w EXCEPT !.isConnecting = FALSE, !.reconnectAttempts = @ + 1]
        id == NewTimerId(w1)
    IN onStatusChange([w1 EXCEPT !.timers = @ \cup {[id |-> id, delay |-> backoffDelay(0)]},
                                 !.reconnectTimeout = id],
                      St("error", "ws_failed", w1.reconnectAttempts))

onerror(w) ==
    LET w1 == [w EXCEPT !.isConnecting = FALSE, !.reconnectAttempts = @ + 1]
    IN onStatusChange(w1, St("error", "ws_failed", w1.reconnectAttempts))

\* ws.onclose that schedules the reconnect without clearing the tracked timer
onclose_leaksTimer(w, code) ==
    LET w1 == [w EXCEPT !.isConnecting = FALSE]
    IN IF w1.isDisconnected THEN w1
       ELSE IF code # 1000 /\ w1.reconnectAttempts < maxReconnectAttempts
       THEN LET w2 == onStatusChange(w1, St("error", "reconnecting", w1.reconnectAttempts + 1))
                id == NewTimerId(w2)
            IN [w2 EXCEPT !.timers = @ \cup {[id |-> id, delay |-> backoffDelay(w2.reconnectAttempts)]},
                          !.reconnectTimeout = id]
       ELSE IF w1.reconnectAttempts >= maxReconnectAttempts
       THEN onStatusChange(w1, St("error", "unable_to_maintain", 0))
       ELSE w1

onclose(w, code) ==
    LET w1 == [w EXCEPT !.isConnecting = FALSE]
    IN IF w1.isDisconnected THEN w1
       ELSE IF code # 1000 /\ w1.reconnectAttempts < maxReconnectAttempts
       THEN LET w2 == onStatusChange(w1, St("error", "reconnecting", w1.reconnectAttempts + 1))
                w3 == IF w2.reconnectTimeout # 0 THEN clearTimeout(w2, w2.reconnectTimeout) ELSE w2
                id == NewTimerId(w3)
            IN [w3 EXCEPT !.timers = @ \cup {[id |-> id, delay |-> backoffDelay(w3.reconnectAttempts)]},
                          !.reconnectTimeout = id]
       ELSE IF w1.reconnectAttempts >= maxReconnectAttempts
       THEN onStatusChange(w1, St("error", "unable_to_maintain", 0))
       ELSE w1

\* ---------------------------------------------------------------- messages and jobs

JobIds == {"p1", "p2"}
\* The server gives every job an id of its own: the n-th job that it queues
JobId(n) == IF n = 1 THEN "p1" ELSE "p2"

Str_view == <<"v","i","e","w","?","f","i","l","e","n","a","m","e","=">>
Str_subfolder == <<"&","s","u","b","f","o","l","d","e","r","=">>
Str_type == <<"&","t","y","p","e","=">>

\* A message event.  kind: "json" (text that parses), "invalid_json" (text that
\* does not), "binary" (not a string).  hasData: the parsed object has a data field.
Msg(kind, type, hasData, prompt_id, node, value, max) ==
    [kind |-> kind, type |-> type, hasData |-> hasData, prompt_id |-> prompt_id,
     node |-> node, value |-> value, max |-> max]

NoMsg == Msg("none", "none", FALSE, Null, Null, 0, 1)

\* The number NaN, which is also what a missing field (undefined) is in arithmetic
NaN == -1

\* The HTTP response of a step, recorded like a message: the request it answers
\* ("upload", "submit", "history"), the job id, the outcome, the failure if it failed
HttpResult(type, id, outcome, failure) ==
    [kind |-> "http", type |-> type, hasData |-> FALSE, prompt_id |-> id, node |-> Null,
     value |-> 0, max |-> 1, outcome |-> outcome, failure |-> failure]

Messages ==
    {Msg("json", "status", TRUE, Null, Null, 0, 1),
     Msg("json", "other", TRUE, Null, Null, 0, 1),
     Msg("invalid_json", "none", FALSE, Null, Null, 0, 1),
     Msg("binary", "none", FALSE, Null, Null, 0, 1),
     Msg("json", "progress", FALSE, Null, Null, 0, 1),
     Msg("json", "executing", TRUE, Null, Null, 0, 1)}
    \cup {Msg("json", "progress", TRUE, p, Null, 30, 120) : p \in JobIds}
    \cup {Msg("json", "progress", TRUE, p, Null, NaN, NaN) : p \in JobIds}
    \cup {Msg("json", "executing", TRUE, p, n, 0, 1) : p \in JobIds, n \in {Null, "n7"}}

\* The progress events of the jobs: every value of every max up to MaxProgress, and 30 of 120
ProgressValues == {<<v, m>> : v \in 0..MaxProgress, m \in 1..MaxProgress} \cup {<<30, 120>>}
ProgressMessages ==
    {Msg("json", "progress", TRUE, p, Null, vm[1], vm[2]) : p \in JobIds, vm \in {x \in ProgressValues : x[1] <= x[2]}}

\* Math.round of the quotient rounded down
percent_truncated(value, max) == (100 * value) \div max

\* Math.round((value / max) * 100) for integers value >= 0, max > 0: Math.round
\* rounds to the nearest integer, a tie upwards.  (The double (value / max) * 100 is
\* within 1e-13 of the exact quotient, which for max <= 120 is a tie only when it
\* is exactly representable, so that the exact rounding is the one computed.)
\* Without value or max the quotient is NaN, and so is its rounding.
percent(value, max) ==
    IF value = NaN \/ max = NaN THEN NaN ELSE (200 * value + max) \div (2 * max)

\* An HTTP request: axios.post / axios.get with this url, these headers and this
\* body; after is the number of statuses that the step has emitted when it is issued
NoBody == [kind |-> "none"]
Req(method, url, hdrs, body) ==
    [method |-> method, url |-> url, headers |-> hdrs, body |-> body, after |-> 0]
send(w, req) == [w EXCEPT !.sent = Append(@, [req EXCEPT !.after = Len(w.emitted)])]

Str_prompt  == <<"p","r","o","m","p","t">>
Str_upload  == <<"u","p","l","o","a","d","/","i","m","a","g","e">>
Str_history == <<"h","i","s","t","o","r","y","/">>

\* The synchronous part of getGeneratedImage: the GET /history/{currentPromptId} is sent
getGeneratedImage(w) ==
    LET historyUrl == normalizeUrl(w.settings.baseUrl, Str_history \o <<w.currentPromptId>>)
    IN send([w EXCEPT !.fetches = Append(@, w.currentPromptId)],
            Req("GET", historyUrl, w.headers, NoBody))

\* handleWebSocketMessage that takes every completion event for the tracked job's
handleWebSocketMessage_anyJob(w, data) ==
    IF data.type = "progress"
    THEN IF data.prompt_id = w.currentPromptId
         THEN onStatusChange(w, St("generating", "progress", percent(data.value, data.max)))
         ELSE w
    ELSE IF data.type = "executing"
    THEN IF data.node = Null
         THEN getGeneratedImage(w)
         ELSE w
    ELSE w

\* handleWebSocketMessage, for a parsed object with a data field
\* handleWebSocketMessage that takes every executing event of the tracked job for
\* its completion
handleWebSocketMessage_anyNode(w, data) ==
    IF data.type = "progress"
    THEN IF data.prompt_id = w.currentPromptId
         THEN onStatusChange(w, St("generating", "progress", percent(data.value, data.max)))
         ELSE w
    ELSE IF data.type = "executing"
    THEN IF data.prompt_id = w.currentPromptId THEN getGeneratedImage(w) ELSE w
    ELSE w

handleWebSocketMessage(w, data) ==
    IF data.type = "progress"
    THEN IF data.prompt_id = w.currentPromptId
         THEN onStatusChange(w, St("generating", "progress", percent(data.value, data.max)))
         ELSE w
    ELSE IF data.type = "executing"
    THEN IF data.node = Null /\ data.prompt_id = w.currentPromptId
         THEN getGeneratedImage(w)
         ELSE w
    ELSE w

\* ws.onmessage: reading data.data.prompt_id of an object without data throws a
\* TypeError, which the handler catches like a parse error
onmessage(w, ev) ==
    IF ev.kind = "binary" THEN w
    ELSE IF ev.kind = "invalid_json"
    THEN onStatusChange(w, St("error", "malformed", 0))
    ELSE IF ev.type \in {"progress", "executing"} /\ ~ev.hasData
    THEN onStatusChange(w, St("error", "malformed", 0))
    ELSE handleWebSocketMessage(w, ev)

\* ---------------------------------------------------------------- the job graph

\* An input of a node that is a reference [nodeId, outputIndex]
Ref(input, node, output) == [input |-> input, node |-> node, output |-> output]

\* A node of the graph: its class_type, the inputs that are references, the inputs
\* that are null, and the string input that comes from the caller (text or image).
\* The constant inputs (sizes, model file names, the random seed) are left out.
Node(class_type, refs, nulls, text) ==
    [class_type |-> class_type, refs |-> refs, nulls |-> nulls, text |-> text]

\* The nodes "52", "55" and "56" that are spread into the graph for an imageName
ImageNodes(imageName) ==
    ("52" :> Node("LoadImage", {}, {}, imageName))
    @@ ("55" :> Node("DreamORefEncode",
                     {Ref("pixels", "52", 0), Ref("vae", "40", 0), Ref("dreamo_processor", "46", 0)}, {}, <<>>))
    @@ ("56" :> Node("PreviewImage", {Ref("images", "55", 1)}, {}, <<>>))

\* The nodes of the graph that do not depend on imageName
TextNodes(prompt) ==
    ("6" :> Node("CLIPTextEncode", {Ref("clip", "39", 0)}, {}, prompt))
    @@ ("8" :> Node("VAEDecode", {Ref("samples", "31", 0), Ref("vae", "40", 0)}, {}, <<>>))
    @@ ("9" :> Node("SaveImage", {Ref("images", "8", 0)}, {}, <<>>))
    @@ ("27" :> Node("EmptySD3LatentImage", {}, {}, <<>>))
    @@ ("31" :> Node("KSampler",
                     {Ref("model", "50", 0), Ref("positive", "35", 0),
                      Ref("negative", "33", 0), Ref("latent_image", "27", 0)}, {}, <<>>))
    @@ ("33" :> Node("CLIPTextEncode", {Ref("clip", "39", 0)}, {}, <<>>))
    @@ ("35" :> Node("FluxGuidance", {Ref("conditioning", "6", 0)}, {}, <<>>))
    @@ ("39" :> Node("DualCLIPLoader", {}, {}, <<>>))
    @@ ("40" :> Node("VAELoader", {}, {}, <<>>))
    @@ ("41" :> Node("LoraLoaderModelOnly", {Ref("model", "57", 0)}, {}, <<>>))
    @@ ("42" :> Node("LoraLoaderModelOnly", {Ref("model", "41", 0)}, {}, <<>>))
    @@ ("43" :> Node("LoraLoaderModelOnly", {Ref("model", "42", 0)}, {}, <<>>))
    @@ ("44" :> Node("LoraLoaderModelOnly", {Ref("model", "43", 0)}, {}, <<>>))
    @@ ("45" :> Node("LoraLoaderModelOnly", {Ref("model", "44", 0)}, {}, <<>>))
    @@ ("46" :> Node("DreamOProcessorLoader", {}, {}, <<>>))
    @@ ("57" :> Node("UnetLoaderGGUF", {}, {}, <<>>))

\* Node "50": "ref1": imageName ? ["55", 0] : null
ApplyDreamO(imageName) ==
    IF imageName # <<>>
    THEN Node("ApplyDreamO", {Ref("model", "45", 0), Ref("ref1", "55", 0)}, {}, <<>>)
    ELSE Node("ApplyDreamO", {Ref("model", "45", 0)}, {"ref1"}, <<>>)

\* createDreamOWorkflow that spreads the image nodes into every graph
createDreamOWorkflow_keepsImageNodes(prompt, imageName) ==
    TextNodes(prompt) @@ ("50" :> ApplyDreamO(imageName)) @@ ImageNodes(imageName)

\* createDreamOWorkflow that never spreads the image nodes into the graph
createDreamOWorkflow_dropsImageNodes(prompt, imageName) ==
    TextNodes(prompt) @@ ("50" :> ApplyDreamO(imageName))

createDreamOWorkflow(prompt, imageName) ==
    TextNodes(prompt)
    @@ ("50" :> ApplyDreamO(imageName))
    @@ (IF imageName # <<>> THEN ImageNodes(imageName) ELSE <<>>)

createWorkflow(prompt, imageName) == createDreamOWorkflow(prompt, imageName)

\* ---------------------------------------------------------------- HTTP failures

\* A value that the catch block of generateImage turns into text: absent, a string
\* (str), or an object with its message (empty if it has none) and its JSON.stringify
Val(kind, str, message, json) == [kind |-> kind, str |-> str, message |-> message, json |-> json]
Absent == Val("absent", <<>>, <<>>, <<>>)
ErrString(str) == Val("string", str, <<>>, <<>>)
ErrObject(message, json) == Val("object", <<>>, message, json)

\* JavaScript truthiness of such a value
truthy(v) == v.kind = "object" \/ (v.kind = "string" /\ v.str # <<>>)

\* An entry of node_errors: the node id, nodeError.class_type (empty if absent),
\* nodeError.errors ("list": an array of values, "other": absent or not an array)
\* and nodeError.message (empty if absent)
NodeError(nodeId, class_type, errorsKind, errors, message) ==
    [nodeId |-> nodeId, class_type |-> class_type, errorsKind |-> errorsKind,
     errors |-> errors, message |-> message]

\* A response body: data.error and data.node_errors (hasNodeErrors: the key is
\* present with an object, whose entries are nodeErrors in Object.entries order)
Body(error, hasNodeErrors, nodeErrors) ==
    [error |-> error, hasNodeErrors |-> hasNodeErrors, nodeErrors |-> nodeErrors]

NoData == Body(Absent, FALSE, <<>>)

\* What the awaited axios call rejects with: an AxiosError or another exception,
\* error.response?.status (0 without a response), error.code, error.response?.data
Failure(axios, status, code, data) == [axios |-> axios, status |-> status, code |-> code, data |-> data]

\* array.join(sep) of an array of strings
RECURSIVE join(_, _)
join(parts, sep) ==
    IF parts = <<>> THEN <<>>
    ELSE IF Len(parts) = 1 THEN parts[1]
    ELSE parts[1] \o sep \o join(Tail(parts), sep)

\* typeof err === 'string' ? err : err.message ? err.message : JSON.stringify(err)
errText(err) ==
    IF err.kind = "string" THEN err.str
    ELSE IF err.message # <<>> THEN err.message
    ELSE err.json

\* The string that the map callback of generateImage builds for one node error
nodeMsg(nodeError) ==
    <<"Node ">> \o nodeError.nodeId
    \o (IF nodeError.class_type # <<>> THEN <<" (">> \o nodeError.class_type \o <<")">> ELSE <<>>)
    \o (IF nodeError.errorsKind = "list" /\ Len(nodeError.errors) > 0
        THEN <<": ">> \o join([i \in 1..Len(nodeError.errors) |-> errText(nodeError.errors[i])], <<", ">>)
        ELSE IF nodeError.message # <<>>
        THEN <<": ">> \o nodeError.message
        ELSE <<": Unknown error">>)

\* errorMessage of the branch of generateImage for a body with an error
validationMessage(errorData) ==
    LET main == <<"Generation failed: ">>
                \o (IF truthy(errorData.error) THEN errText(errorData.error) ELSE <<>>)
        nodeErrors == join([i \in 1..Len(errorData.nodeErrors) |-> nodeMsg(errorData.nodeErrors[i])], <<" | ">>)
    IN IF errorData.hasNodeErrors /\ nodeErrors # <<>>
       THEN main \o <<" | Node Issues: ">> \o nodeErrors
       ELSE main

\* errorMessage of the other branch for an AxiosError, in generateImage and uploadImage
classify(failure) ==
    IF failure.status = 404 THEN "server_not_found"
    ELSE IF failure.status = 403 THEN "forbidden"
    ELSE IF failure.code = "ECONNREFUSED" THEN "cannot_connect"
    ELSE IF failure.code = "TIMEOUT" THEN "timed_out"
    ELSE "failed"

\* ---------------------------------------------------------------- upload and submit

Rejected(w, what) ==
    [w EXCEPT !.emitted = Append(@, [type |-> "throw", message |-> what, n |-> 0, url |-> <<>>, text |-> <<>>])]

Returned(w, what, value) ==
    [w EXCEPT !.emitted = Append(@, [type |-> "return", message |-> what, n |-> 0, url |-> <<>>, text |-> value])]

\* uploadHeaders of uploadImage
uploadHeaders(s) ==
    LET attach == /\ s.useCloudflareAccess = Str_true
                  /\ s.cfAccessClientId # <<>>
                  /\ s.cfAccessClientSecret # <<>>
                  /\ ~isLocalDevelopment(s)
    IN [contentType |-> "multipart/form-data",
        cfId |-> IF attach THEN s.cfAccessClientId ELSE NoHeader,
        cfSecret |-> IF attach THEN s.cfAccessClientSecret ELSE NoHeader]

\* uploadImage up to the await of axios.post
uploadImage(w, file) ==
    LET w1 == onStatusChange(w, St("uploading", "uploading", 0))
        uploadUrl == normalizeUrl(w1.settings.baseUrl, Str_upload)
    IN send([w1 EXCEPT !.uploads = @ + 1],
            Req("POST", uploadUrl, uploadHeaders(w1.settings),
                [kind |-> "form", image |-> file, type |-> "input", overwrite |-> "true"]))

\* uploadImage after the await: the response carries the name
uploadImageResolved(w, name) == Returned([w EXCEPT !.uploads = @ - 1], "uploadImage", name)

\* uploadImage whose catch block reports nothing before it throws
uploadImageRejected_silent(w, failure) ==
    Rejected([w EXCEPT !.uploads = @ - 1], "uploadImage")

\* uploadImage after the await: the catch block
uploadImageRejected(w, failure) ==
    LET w1 == [w EXCEPT !.uploads = @ - 1]
    IN Rejected(onStatusChange(w1, St("error", IF failure.axios THEN classify(failure) ELSE "unknown", 0)),
                "uploadImage")

\* generateImage up to the await of axios.post
generateImage_anonymous(w, prompt, imageName) ==
    LET w1 == onStatusChange(w, St("generating", "preparing", 0))
    IN send([w1 EXCEPT !.pendingSubmits = @ + 1],
            Req("POST", normalizeUrl(w1.settings.baseUrl, Str_prompt), w1.headers,
                [kind |-> "json", prompt |-> createWorkflow(prompt, imageName),
                 client_id |-> <<>>]))

generateImage(w, prompt, imageName) ==
    LET w1 == onStatusChange(w, St("generating", "preparing", 0))
        workflow == createWorkflow(prompt, imageName)
        promptUrl == normalizeUrl(w1.settings.baseUrl, Str_prompt)
    IN send([w1 EXCEPT !.pendingSubmits = @ + 1],
            Req("POST", promptUrl, w1.headers,
                [kind |-> "json", prompt |-> workflow, client_id |-> w1.clientId]))

generateImageResolved_keepsJob(w, prompt_id) ==
    onStatusChange([w EXCEPT !.pendingSubmits = @ - 1,
                             !.currentPromptId = IF @ = Null THEN prompt_id ELSE @],
                   St("generating", "started", 0))

\* generateImage after the await: the response carries prompt_id
generateImageResolved(w, prompt_id) ==
    onStatusChange([w EXCEPT !.pendingSubmits = @ - 1, !.currentPromptId = prompt_id],
                   St("generating", "started", 0))

\* generateImage after the await: the catch block
generateImageRejected(w, failure) ==
    LET w1 == [w EXCEPT !.pendingSubmits = @ - 1]
    IN IF failure.axios
       THEN IF truthy(failure.data.error)
            THEN onStatusChange(w1, StText("error", "generation_failed_details",
                                           validationMessage(failure.data)))
            ELSE Rejected(onStatusChange(w1, St("error", classify(failure), 0)), "generateImage")
       ELSE Rejected(onStatusChange(w1, St("error", "unknown", 0)), "generateImage")

\* What GET /history/{id} can answer for the requested id: an entry whose outputs
\* have an image under node "9", no entry, an entry without that image, a failure
HistoryOutcomes == {"image", "no_entry", "no_output", "fail"}

\* outputs["9"].images[0]: filename, subfolder (empty if absent) and type
ImageInfo(filename, subfolder, type) == [filename |-> filename, subfolder |-> subfolder, type |-> type]
Str_output == <<"o","u","t","p","u","t">>
ImageInfos == {ImageInfo(<<"o",".","p","n","g">>, <<>>, Str_output),
               ImageInfo(<<"o",".","p","n","g">>, <<"d">>, Str_output)}

\* `view?filename=${filename}&subfolder=${subfolder || ''}&type=${type}`
viewPath(imageInfo) ==
    Str_view \o imageInfo.filename \o Str_subfolder \o imageInfo.subfolder \o Str_type \o imageInfo.type

\* getGeneratedImage that reports nothing when it finds no image
getGeneratedImageResumed_noError(w, requested, outcome, imageInfo) ==
    IF outcome = "fail"
    THEN onStatusChange(w, St("error", "retrieve_failed", 0))
    ELSE IF outcome = "image" /\ w.currentPromptId = requested
    THEN LET imageUrl == normalizeUrl(w.settings.baseUrl, viewPath(imageInfo))
         IN onImageGenerated(onStatusChange(w, St("completed", "completed", 0)), imageUrl)
    ELSE w

\* getGeneratedImage that hands the image over before it reports the completion
getGeneratedImageResumed_imageFirst(w, requested, outcome, imageInfo) ==
    IF outcome = "fail"
    THEN onStatusChange(w, St("error", "retrieve_failed", 0))
    ELSE IF outcome = "image" /\ w.currentPromptId = requested
    THEN LET imageUrl == normalizeUrl(w.settings.baseUrl, viewPath(imageInfo))
         IN onStatusChange(onImageGenerated(w, imageUrl), St("completed", "completed", 0))
    ELSE onStatusChange(w, St("error", "not_found", 0))

\* getGeneratedImage after the await, for the request with id `requested`: the
\* response is read under this.currentPromptId as it is now
\* getGeneratedImage whose catch block throws the error on
getGeneratedImageResumed_rethrows(w, requested, outcome, imageInfo) ==
    IF outcome = "fail"
    THEN Rejected(onStatusChange(w, St("error", "retrieve_failed", 0)), "getGeneratedImage")
    ELSE IF outcome = "image" /\ w.currentPromptId = requested
    THEN onImageGenerated(onStatusChange(w, St("completed", "completed", 0)),
                          normalizeUrl(w.settings.baseUrl, viewPath(imageInfo)))
    ELSE onStatusChange(w, St("error", "not_found", 0))

getGeneratedImageResumed(w, requested, outcome, imageInfo) ==
    IF outcome = "fail"
    THEN onStatusChange(w, St("error", "retrieve_failed", 0))
    ELSE IF outcome = "image" /\ w.currentPromptId = requested
    THEN LET imageUrl == normalizeUrl(w.settings.baseUrl, viewPath(imageInfo))
         IN onImageGenerated(onStatusChange(w, St("completed", "completed", 0)), imageUrl)
    ELSE onStatusChange(w, St("error", "not_found", 0))

\* ---------------------------------------------------------------- actions

ClientIds == {<<"a">>, <<"b">>, <<"c">>}

\* The state after construction, for initial settings of S and a client id of Ids;
\* H names the histories to record
Constructed(S, Ids, H) ==
    /\ settings \in S
    /\ clientId \in Ids
    /\ ws = 0
    /\ currentPromptId = Null
    /\ headers = deriveHeaders(settings)
    /\ reconnectAttempts = 0
    /\ reconnectTimeout = 0
    /\ isConnecting = FALSE
    /\ isDisconnected = FALSE
    /\ sockets = <<>>
    /\ created = 0
    /\ timers = {}
    /\ pendingSubmits = 0
    /\ fetches = <<>>
    /\ uploads = 0
    /\ issued = 0
    /\ accepted = {}
    /\ emitted = <<>>
    /\ sent = <<>>
    /\ lastOp = "init"
    /\ lastMsg = NoMsg
    /\ lastCall = "none"
    /\ cancelled = {}
    /\ wasDisconnected = FALSE
    /\ abnormalRun = 0
    /\ imaged = {}
    /\ appStatus = "idle"
    /\ tracked = H

\* App.tsx: the onStatusChange handler hands every status to setStatus; after
\* the calls of one step the state holds the type of the last status
setStatus(prev, calls) ==
    LET idx == {i \in 1..Len(calls) : calls[i].type \notin {"onImageGenerated", "throw", "return"}}
    IN IF idx = {} THEN prev
       ELSE calls[CHOOSE i \in idx : \A j \in idx : j <= i].type

\* App.tsx: what the Generate button derives from the status
isLoading == appStatus \in {"uploading", "generating"}
isConnected == appStatus \in {"connected", "completed", "generating", "uploading"}

Ghost(op, msg, call, run) ==
    /\ lastOp' = op
    /\ lastMsg' = IF "msg" \in tracked THEN msg ELSE NoMsg
    /\ lastCall' = IF "calls" \in tracked THEN call ELSE lastCall
    /\ cancelled' = IF "calls" \in tracked /\ op # "timer" THEN timers \ timers' ELSE {}
    /\ wasDisconnected' = ("calls" \in tracked /\ isDisconnected)
    /\ abnormalRun' = IF "run" \in tracked THEN run ELSE 0
    /\ imaged' = IF /\ "jobs" \in tracked
                    /\ op = "historyResponse"
                    /\ \E i \in 1..Len(emitted') : emitted'[i].type = "onImageGenerated"
                 THEN imaged \cup {msg.prompt_id}
                 ELSE imaged
    /\ appStatus' = IF "app" \in tracked THEN setStatus(appStatus, emitted') ELSE appStatus
    /\ tracked' = tracked

WsUrlOf(w) == normalizeUrl(w.settings.wsUrl, Str_wsPath \o w.clientId)

\* The caller calls connect()
Connect(N) ==
    \E o \in ConstructorOutcomes(WsUrlOf(World)) :
        /\ connect(World, o).created <= N
        /\ Becomes(connect(World, o))
        /\ Ghost("connect", NoMsg, "connect", 0)

\* The caller calls disconnect()
Disconnect ==
    /\ Becomes(disconnect(World))
    /\ Ghost("disconnect", NoMsg, "disconnect", 0)

\* The caller calls updateSettings(ns)
UpdateSettings(S) ==
    \E ns \in S :
        /\ Becomes(updateSettings(World, ns))
        /\ Ghost("updateSettings", NoMsg,
                 IF JSON_stringify(settings) # JSON_stringify(ns) THEN "updateSettings" ELSE "updateSettingsSame", 0)

\* The handshake of socket s succeeds: its open event
SocketOpen(s) ==
    /\ sockets[s].readyState = "CONNECTING"
    /\ Becomes(onopen([World EXCEPT !.sockets[s].readyState = "OPEN"]))
    /\ Ghost("open", NoMsg, lastCall, 0)

\* The run of abnormal closures after the close event of socket s with this code:
\* a closure that the client asked for does not count, a normal one ends the run
AbnormalRunAfter(s, code) ==
    IF sockets[s].readyState = "CLOSING" THEN abnormalRun
    ELSE IF code = 1000 THEN 0
    ELSE Min(abnormalRun + 1, maxReconnectAttempts)

\* The connection of socket s fails: its error event, then its close event (1006),
\* dispatched by one task
SocketFail(s) ==
    /\ Becomes(onclose(onerror([World EXCEPT !.sockets = Closed(@, s)]), 1006))
    /\ Ghost("fail", NoMsg, lastCall, AbnormalRunAfter(s, 1006))

\* The close codes a server sends, and those of a closing handshake
ServerCloseCodes == {1000, 1001}
ClosingCodes == {1000, 1006}

\* Socket s closes without an error: the server closed an open socket, or the
\* closing handshake of a socket closed by the client ended
SocketClose(s) ==
    /\ \/ sockets[s].readyState = "OPEN"
       \/ sockets[s].readyState = "CLOSING" /\ ~sockets[s].failing
    /\ \E code \in (IF sockets[s].readyState = "OPEN" THEN ServerCloseCodes ELSE ClosingCodes) :
        /\ Becomes(onclose([World EXCEPT !.sockets = Closed(@, s)], code))
        /\ Ghost("close", NoMsg, lastCall, AbnormalRunAfter(s, code))

\* A pending reconnect timer fires
TimerFire(N) ==
    \E t \in timers, o \in ConstructorOutcomes(WsUrlOf(World)) :
        LET w == connectWebSocket([World EXCEPT !.timers = @ \ {t}], o)
        IN /\ w.created <= N
           /\ Becomes(w)
           /\ Ghost("timer", NoMsg, lastCall, abnormalRun)

\* An open socket delivers a message
SocketMessage(s) ==
    /\ sockets[s].readyState = "OPEN"
    /\ \E m \in Messages :
        /\ Len(onmessage(World, m).fetches) <= MaxInFlight
        /\ Becomes(onmessage(World, m))
        /\ Ghost("message", m, lastCall, abnormalRun)

\* An open socket delivers a progress event of a job
SocketProgress(s) ==
    /\ sockets[s].readyState = "OPEN"
    /\ \E m \in ProgressMessages :
        /\ Becomes(onmessage(World, m))
        /\ Ghost("message", m, lastCall, abnormalRun)

\* An open socket delivers the completion event of a job that the server has queued
SocketCompletion(s) ==
    /\ sockets[s].readyState = "OPEN"
    /\ \E n \in 1..issued :
        LET m == Msg("json", "executing", TRUE, JobId(n), Null, 0, 1)
        IN /\ Len(onmessage(World, m).fetches) <= MaxInFlight
           /\ Becomes(onmessage(World, m))
           /\ Ghost("message", m, lastCall, abnormalRun)

\* The prompts and image names that the caller passes: no image, a blank name, a name
Prompts == {<<"c","a","t">>}
ImageNames == {<<>>, <<" ">>, <<"r",".","p","n","g">>}
JobImageNames == {<<"r",".","p","n","g">>}
Files == {<<"f",".","p","n","g">>}

\* Failures without a response body to inspect: every status with every code, and
\* an exception that is not an AxiosError
NetworkFailures ==
    {Failure(TRUE, st, code, NoData) :
        st \in {0, 403, 404, 500}, code \in {"ECONNREFUSED", "TIMEOUT", "ECONNABORTED", "ERR_BAD_RESPONSE"}}
    \cup {Failure(FALSE, 0, "none", NoData)}

\* The bodies of the backend's validation responses
NodeErrorA ==
    NodeError(<<"5","0">>, <<"ApplyDreamO">>, "list",
              <<ErrString(<<"bad ref1">>), ErrObject(<<"missing input">>, <<"{m}">>), ErrObject(<<>>, <<"{}">>)>>, <<>>)
NodeErrorB == NodeError(<<"5","2">>, <<>>, "other", <<>>, <<"no such image">>)
ErrorBodies ==
    {Body(ErrObject(<<"invalid prompt">>, <<"{e}">>), TRUE, <<NodeErrorA, NodeErrorB>>),
     Body(ErrString(<<"no outputs">>), FALSE, <<>>),
     Body(ErrObject(<<>>, <<"{t}">>), TRUE, <<>>),
     Body(ErrString(<<>>), FALSE, <<>>),
     Body(Absent, TRUE, <<NodeError(<<"9">>, <<>>, "list", <<>>, <<>>)>>),
     Body(Absent, TRUE, <<NodeErrorB, NodeErrorA>>)}
ValidationFailures ==
    {Failure(TRUE, st, "ERR_BAD_REQUEST", b) : st \in {400, 404}, b \in ErrorBodies}

SubmitFailures == NetworkFailures \cup ValidationFailures
JobSubmitFailures ==
    {Failure(TRUE, 0, "ECONNREFUSED", NoData),
     Failure(TRUE, 400, "ERR_BAD_REQUEST", Body(ErrString(<<"no outputs">>), FALSE, <<>>))}
UploadFailures == NetworkFailures \cup {Failure(TRUE, 400, "ERR_BAD_REQUEST", b) : b \in ErrorBodies}

NoFailure == Failure(FALSE, 200, "none", NoData)
NoInfo == ImageInfo(<<>>, <<>>, <<>>)

\* The caller calls uploadImage(file)
UploadImage ==
    /\ uploads < MaxInFlight
    /\ \E file \in Files :
        /\ Becomes(uploadImage(World, file))
        /\ Ghost("uploadImage", NoMsg, lastCall, abnormalRun)

\* The response of a pending POST /upload/image arrives with the assigned name
UploadResolved ==
    /\ uploads > 0
    /\ \E name \in ImageNames \ {<<>>} :
        /\ Becomes(uploadImageResolved(World, name))
        /\ Ghost("uploadResolved", HttpResult("upload", Null, "ok", NoFailure) @@ [name |-> name],
                 lastCall, abnormalRun)

\* A pending POST /upload/image fails
UploadRejected ==
    /\ uploads > 0
    /\ \E f \in UploadFailures :
        /\ Becomes(uploadImageRejected(World, f))
        /\ Ghost("uploadRejected", HttpResult("upload", Null, "failed", f), lastCall, abnormalRun)

\* The arguments of a call of generateImage, recorded like a message
CallOf(type, prompt, imageName) ==
    [kind |-> "call", type |-> type, hasData |-> FALSE, prompt_id |-> Null, node |-> Null,
     value |-> 0, max |-> 1, prompt |-> prompt, imageName |-> imageName]

\* The caller calls generateImage(prompt, imageName)
GenerateImage(N) ==
    /\ pendingSubmits < MaxInFlight
    /\ \E prompt \in Prompts, imageName \in N :
        /\ Becomes(generateImage(World, prompt, imageName))
        /\ Ghost("generateImage", CallOf("generateImage", prompt, imageName), lastCall, abnormalRun)

\* The server queues the job of a pending POST /prompt and assigns its id; the
\* response is on its way, and the events of the job can overtake it
ServerAccepts ==
    /\ Cardinality(accepted) < pendingSubmits
    /\ issued < Cardinality(JobIds)
    /\ Becomes([World EXCEPT !.issued = @ + 1, !.accepted = @ \cup {JobId(issued + 1)}])
    /\ Ghost("serverAccepts", NoMsg, lastCall, abnormalRun)

\* The response of a pending POST /prompt arrives with the job id (the server
\* queues the job in this step unless ServerAccepts did)
SubmitResolved ==
    /\ pendingSubmits > 0
    /\ accepted # {} \/ issued < Cardinality(JobIds)
    /\ \E p \in (IF accepted # {} THEN accepted ELSE {JobId(issued + 1)}) :
        /\ Becomes([generateImageResolved(World, p) EXCEPT
                        !.issued = IF p \in accepted THEN @ ELSE @ + 1,
                        !.accepted = @ \ {p}])
        /\ Ghost("submitResolved", HttpResult("submit", p, "ok", NoFailure), lastCall, abnormalRun)

\* A pending POST /prompt fails
SubmitRejected(F) ==
    /\ pendingSubmits > 0
    /\ \E f \in F :
        /\ Becomes(generateImageRejected(World, f))
        /\ Ghost("submitRejected", HttpResult("submit", Null, "failed", f), lastCall, abnormalRun)

\* The response of one pending GET /history/{id} arrives
HistoryResponse ==
    \E i \in 1..Len(fetches), outcome \in HistoryOutcomes, info \in ImageInfos :
        LET w == [World EXCEPT !.fetches = SubSeq(@, 1, i - 1) \o SubSeq(@, i + 1, Len(@))]
        IN /\ Becomes(getGeneratedImageResumed(w, fetches[i], outcome, info))
           /\ Ghost("historyResponse",
                    HttpResult("history", fetches[i], outcome, NoFailure)
                        @@ [imageInfo |-> IF outcome = "image" THEN info ELSE NoInfo],
                    lastCall, abnormalRun)

\* App.tsx: a click on the Generate button, which is enabled unless
\* isLoading || !isConnected: handleGenerate runs up to the await of uploadImage
\* (a file is selected and the prompt is not blank)
HandleGenerate ==
    /\ ~(isLoading \/ ~isConnected)
    /\ UploadImage

\* App.tsx: handleGenerate after the await of uploadImage: generateImage is called
\* with the name that the upload returned, up to its await (a rejected upload is
\* caught and only logged: UploadRejected; so is a rejected generateImage)
HandleGenerateResumed ==
    /\ uploads > 0
    /\ pendingSubmits < MaxInFlight
    /\ \E prompt \in Prompts, name \in JobImageNames :
        /\ Becomes(generateImage(uploadImageResolved(World, name), prompt, name))
        /\ Ghost("generateImage", CallOf("generateImage", prompt, name), lastCall, abnormalRun)

\* The connection lifecycle: the caller's connect/disconnect/updateSettings, the
\* events of every socket and the reconnect timer
Init == Constructed(AllSettings, {<<"a">>}, {"calls"})

Next ==
    \/ Connect(MaxSockets)
    \/ Disconnect
    \/ UpdateSettings(AllSettings)
    \/ \E s \in DOMAIN sockets : SocketOpen(s)
    \/ \E s \in DOMAIN sockets : SocketFail(s)
    \/ \E s \in DOMAIN sockets : SocketClose(s)
    \/ TimerFire(MaxSockets)

Spec == Init /\ [][Next]_vars

\* A caller that only ever calls connect(), with well-formed settings: every
\* socket can open, fail or be closed by the server, in any order
RetryInit == Constructed(RetrySettings, {<<"a">>}, {"run"})

RetryNext ==
    \/ Connect(MaxRetrySockets)
    \/ \E s \in DOMAIN sockets : SocketOpen(s)
    \/ \E s \in DOMAIN sockets : SocketFail(s)
    \/ \E s \in DOMAIN sockets : SocketClose(s)
    \/ TimerFire(MaxRetrySockets)

RetrySpec == RetryInit /\ [][RetryNext]_vars

\* Every connection attempt fails and the caller calls connect() once, first
FailInit == Constructed(AllSettings \ {SettingsNoBase}, ClientIds, {})

FailNext ==
    \/ lastOp = "init" /\ Connect(MaxRetrySockets)
    \/ \E s \in DOMAIN sockets : SocketFail(s)
    \/ TimerFire(MaxRetrySockets)

FailSpec == FailInit /\ [][FailNext]_vars

\* Jobs over one endpoint whose sockets can always be created: connect and
\* disconnect, sockets opening and closing (with the reconnection that an abnormal
\* closure schedules), the messages of open sockets, submissions and output
\* resolution.  Failing sockets and settings changes are in Spec.
JobSettings == {SettingsRemote}

JobInit == Constructed(JobSettings, {<<"a">>}, {"msg"})

JobNext ==
    \/ Connect(MaxJobSockets)
    \/ Disconnect
    \/ \E s \in DOMAIN sockets : SocketOpen(s)
    \/ \E s \in DOMAIN sockets : SocketClose(s)
    \/ TimerFire(MaxJobSockets)
    \/ \E s \in DOMAIN sockets : SocketMessage(s)
    \/ GenerateImage(JobImageNames)
    \/ SubmitResolved
    \/ SubmitRejected(JobSubmitFailures)
    \/ HistoryResponse

JobSpec == JobInit /\ [][JobNext]_vars

\* The progress of jobs: sockets that open and stay open, submissions that succeed
\* and the progress events of the jobs, the tracked one and the others
ProgressInit == Constructed(JobSettings, {<<"a">>}, {"msg"})

ProgressNext ==
    \/ Connect(MaxJobSockets)
    \/ \E s \in DOMAIN sockets : SocketOpen(s)
    \/ GenerateImage(JobImageNames)
    \/ SubmitResolved
    \/ \E s \in DOMAIN sockets : SocketProgress(s)

ProgressSpec == ProgressInit /\ [][ProgressNext]_vars

\* The HTTP calls of the caller: uploads and submissions with every input, and
\* their responses and failures
SubmitInit == Constructed(JobSettings, {<<"a">>}, {"msg"})

SubmitNext ==
    \/ UploadImage
    \/ UploadResolved
    \/ UploadRejected
    \/ GenerateImage(ImageNames)
    \/ SubmitResolved
    \/ SubmitRejected(SubmitFailures)

SubmitSpec == SubmitInit /\ [][SubmitNext]_vars

\* The requests of a client whose settings change: every endpoint with every
\* combination of credentials; at any time an upload, a submission, or the history
\* request of a completed job is issued (their responses do not matter here)
AuthInit == Constructed(AuthSettings, {<<"a">>}, {})

AuthNext ==
    \/ UpdateSettings(AuthSettings)
    \/ Connect(MaxAuthSockets)
    \/ \E s \in DOMAIN sockets : SocketOpen(s)
    \/ \E s \in DOMAIN sockets : SocketMessage(s)
    \/ UploadImage
    \/ GenerateImage(JobImageNames)
    \/ SubmitResolved

AuthSpec == AuthInit /\ [][AuthNext]_vars

\* A session: the caller connects, disconnects, changes the settings and submits
\* jobs, in any order, while sockets open, fail and close and the reconnect timer
\* fires; the instance has one of several client ids
SessionInit == Constructed(RetrySettings, ClientIds, {})

SessionNext ==
    \/ Connect(MaxSockets)
    \/ Disconnect
    \/ UpdateSettings(RetrySettings)
    \/ \E s \in DOMAIN sockets : SocketOpen(s)
    \/ \E s \in DOMAIN sockets : SocketFail(s)
    \/ \E s \in DOMAIN sockets : SocketClose(s)
    \/ TimerFire(MaxSockets)
    \/ GenerateImage(JobImageNames)
    \/ SubmitResolved

SessionSpec == SessionInit /\ [][SessionNext]_vars

\* Every operation of one client: the caller connects, disconnects, changes the
\* settings, uploads and submits, while sockets open, fail, close and deliver
\* messages, the reconnect timer fires and the HTTP requests succeed or fail.  One
\* request is in flight at a time, and messages arrive between the requests; the
\* calls of connect, disconnect and updateSettings come at any time.
ClientInit == Constructed(JobSettings, {<<"a">>}, {})

ClientNext ==
    \/ Connect(MaxAuthSockets)
    \/ Disconnect
    \/ UpdateSettings(RetrySettings)
    \/ \E s \in DOMAIN sockets : SocketOpen(s)
    \/ \E s \in DOMAIN sockets : SocketFail(s)
    \/ \E s \in DOMAIN sockets : SocketClose(s)
    \/ TimerFire(MaxJobSockets)
    \/ uploads = 0 /\ pendingSubmits = 0 /\ fetches = <<>> /\ \E s \in DOMAIN sockets : SocketMessage(s)
    \/ uploads = 0 /\ pendingSubmits = 0 /\ fetches = <<>> /\ UploadImage
    \/ UploadResolved
    \/ UploadRejected
    \/ uploads = 0 /\ pendingSubmits = 0 /\ fetches = <<>> /\ GenerateImage(JobImageNames)
    \/ SubmitResolved
    \/ SubmitRejected(JobSubmitFailures)
    \/ HistoryResponse

ClientSpec == ClientInit /\ [][ClientNext]_vars

\* The completion of jobs: the server queues a job before its response reaches the
\* client, so the completion event of the job and the response of its submission
\* are processed in either order; a completion event can come more than once and
\* from each open socket.  The caller submits as many jobs as there are job ids.
CompletionInit == Constructed(JobSettings, {<<"a">>}, {"msg", "jobs"})

CompletionNext ==
    \/ Connect(MaxJobSockets)
    \/ \E s \in DOMAIN sockets : SocketOpen(s)
    \/ issued < Cardinality(JobIds) /\ GenerateImage(JobImageNames)
    \/ ServerAccepts
    \/ SubmitResolved
    \/ \E s \in DOMAIN sockets : SocketCompletion(s)
    \/ HistoryResponse

CompletionSpec == CompletionInit /\ [][CompletionNext]_vars

\* Every HTTP request has a timeout (30 s for the submission, 10 s for the history),
\* so each await resumes
FairCompletionSpec ==
    CompletionSpec /\ WF_vars(SubmitResolved) /\ WF_vars(HistoryResponse)

\* A backend that accepts every connection attempt: a connecting socket opens and
\* an open socket stays open; only the sockets that the client closed fail or
\* close.  As long as no socket is open the caller calls connect() and
\* disconnect() in any order, also while an attempt is in flight.
AcceptNext ==
    \/ (\A s \in DOMAIN sockets : sockets[s].readyState # "OPEN") /\ Connect(MaxRetrySockets)
    \/ (\A s \in DOMAIN sockets : sockets[s].readyState # "OPEN") /\ Disconnect
    \/ \E s \in DOMAIN sockets : SocketOpen(s)
    \/ \E s \in DOMAIN sockets : sockets[s].readyState = "CLOSING" /\ SocketFail(s)
    \/ TimerFire(MaxRetrySockets)

\* The browser delivers the pending events: as long as a socket has an event to
\* deliver or a timer is pending, one of them is processed.  (Each event uses up
\* its socket state or timer, so that every one of them is processed in the end.)
FairAcceptSpec ==
    /\ Constructed(JobSettings, ClientIds, {})
    /\ [][AcceptNext]_vars
    /\ WF_vars(\/ \E s \in DOMAIN sockets : SocketOpen(s)
               \/ \E s \in DOMAIN sockets : sockets[s].readyState = "CLOSING" /\ SocketFail(s)
               \/ TimerFire(MaxRetrySockets))

\* The application: App.tsx mounts one client and hands its statuses to setStatus.
\* The user saves settings in the panel (handleSettingsChange calls
\* updateSettings) and clicks Generate when the button is enabled; App.tsx itself
\* never calls connect(), so the channel is opened by a call of connect() from
\* outside it.  The backend accepts every connection attempt and answers every
\* request, with the result or with a failure.
AppNext ==
    \/ Connect(MaxJobSockets)
    \/ UpdateSettings(RetrySettings)
    \/ HandleGenerate
    \/ HandleGenerateResumed
    \/ UploadRejected
    \/ SubmitResolved
    \/ SubmitRejected(JobSubmitFailures)
    \/ \E s \in DOMAIN sockets : SocketOpen(s)
    \/ \E s \in DOMAIN sockets : sockets[s].readyState = "CLOSING" /\ SocketFail(s)
    \/ \E s \in DOMAIN sockets : sockets[s].readyState = "CLOSING" /\ SocketClose(s)
    \/ \E s \in DOMAIN sockets : SocketCompletion(s)
    \/ HistoryResponse
    \/ TimerFire(MaxJobSockets)

\* The browser delivers every pending event: the events of the sockets, the
\* reconnect timer and the responses of the requests (axios has a timeout)
FairAppSpec ==
    /\ Constructed(RetrySettings, {<<"a">>}, {"calls", "app"})
    /\ [][AppNext]_vars
    /\ WF_vars(\/ HandleGenerateResumed
               \/ UploadRejected
               \/ SubmitResolved
               \/ SubmitRejected(JobSubmitFailures)
               \/ \E s \in DOMAIN sockets : SocketOpen(s)
               \/ \E s \in DOMAIN sockets : sockets[s].readyState = "CLOSING" /\ SocketFail(s)
               \/ \E s \in DOMAIN sockets : sockets[s].readyState = "CLOSING" /\ SocketClose(s)
               \/ HistoryResponse
               \/ TimerFire(MaxJobSockets))

\* The fairness of the browser's event loop: a pending timer fires and a failing
\* connection delivers its events
FairFailSpec == FailSpec /\ WF_vars(FailNext)

\* ---------------------------------------------------------------- claims

LiveSockets == {s \in DOMAIN sockets : sockets[s].readyState \in {"CONNECTING", "OPEN"}}

ConnState == <<settings, clientId, ws, headers, reconnectAttempts, reconnectTimeout,
               isConnecting, isDisconnected, sockets, created, timers>>

Emitted(type, message) == \E i \in 1..Len(emitted) : emitted[i].type = type /\ emitted[i].message = message

\* C1: at any time at most one WebSocket of the client is in the Connecting or Open
\* state.
C1_AtMostOneLiveSocket == Cardinality(LiveSockets) <= 1

\* A progress or executing event that carries a job id other than the tracked one
Mismatched(m) ==
    m.kind = "json" /\ m.hasData /\ m.type \in {"progress", "executing"} /\ m.prompt_id # currentPromptId

\* C2: a progress or executing event whose job id differs from the tracked job id
\* is ignored: no status, no output resolution (so no onImageGenerated), tracked job
\* id and connection state unchanged.
C2_MismatchedEventIgnored ==
    [][(lastOp' = "message" /\ Mismatched(lastMsg'))
        => /\ emitted' = <<>>
           /\ fetches' = fetches
           /\ pendingSubmits' = pendingSubmits
           /\ currentPromptId' = currentPromptId
           /\ UNCHANGED ConnState]_vars

C2_Witness ==
    /\ lastOp = "message"
    /\ lastMsg.type = "executing" /\ lastMsg.node = Null /\ lastMsg.hasData
    /\ currentPromptId \in JobIds
    /\ lastMsg.prompt_id \in JobIds \ {currentPromptId}

\* C3: after 5 consecutive abnormal closures, the 6th closure schedules no further
\* reconnect and emits a terminal error status.
C3_SixthClosureTerminal ==
    [][(lastOp' \in {"close", "fail"} /\ abnormalRun >= maxReconnectAttempts
        /\ \E s \in DOMAIN sockets \ DOMAIN sockets' : sockets[s].readyState # "CLOSING")
        => /\ timers' \subseteq timers
           /\ \E i \in 1..Len(emitted') :
                 emitted'[i].type = "error" /\ emitted'[i].message = "unable_to_maintain"]_vars

\* The client has stopped: no socket is left and no reconnect is pending
Stopped == lastOp # "init" /\ sockets = <<>> /\ timers = {}

\* The error statuses after which the client does not retry by itself
TerminalMessages == {"unable_to_maintain", "max_attempts", "establish_failed"}

\* C4: if every connection attempt fails and the caller only calls connect() once,
\* the client creates at most maxReconnectAttempts sockets, then emits a terminal
\* error status, and from then on no timer is pending and no socket is created.
C4_BoundedReconnection ==
    /\ [](created <= maxReconnectAttempts)
    /\ [](Stopped => /\ emitted # <<>>
                     /\ emitted[Len(emitted)].type = "error"
                     /\ emitted[Len(emitted)].message \in TerminalMessages)
    /\ [][Stopped => UNCHANGED <<created, timers, sockets>>]_vars
    /\ <>[]Stopped

C4_Witness ==
    Stopped /\ created = maxReconnectAttempts /\ Emitted("error", "unable_to_maintain")

\* C5: once the retry counter has reached maxReconnectAttempts, a connect() call by
\* the caller (with a base URL configured, no attempt in flight) creates a new socket.
C5_ManualReconnectAfterExhaustion ==
    [][(lastOp' = "connect" /\ settings.baseUrl # <<>> /\ ~isConnecting /\ timers = {}
        /\ reconnectAttempts >= maxReconnectAttempts)
        => created' = created + 1]_vars

\* C6: the close event of a socket closed by disconnect() never schedules a
\* reconnect timer and never starts a connection attempt.
C6_ClientClosedSocketNeverReconnects ==
    [][\A s \in DOMAIN sockets :
          (sockets[s].readyState = "CLOSING" /\ s \notin DOMAIN sockets')
          => (timers' \subseteq timers /\ created' = created)]_vars

\* C7: right after disconnect() no reconnect timer is pending, and until the caller
\* next calls connect() or updateSettings() no socket is created and no timer is
\* scheduled.
C7_DisconnectCancelsReconnect ==
    [][lastCall' = "disconnect" => (timers' = {} /\ created' = created)]_vars

C7_Witness == lastOp = "disconnect" /\ cancelled # {} /\ timers = {}

\* C8: after updateSettings() with changed settings, as long as the caller does not
\* call connect(), no socket is created and no reconnect timer is scheduled.
C8_UpdateSettingsNeverReconnects ==
    [][lastCall' = "updateSettings" => (created' = created /\ timers' \subseteq timers)]_vars

\* C9: updateSettings(newSettings) with settings equal to the current ones changes
\* nothing: socket not closed, timer not cancelled, settings, headers, retry
\* counter, flags and tracked job id unchanged.
C9_EqualSettingsChangeNothing ==
    [][\A ns \in AllSettings :
          (SameContent(settings, ns) /\ lastOp' = "updateSettings" /\ Becomes(updateSettings(World, ns)))
          => /\ SameContent(settings', settings)
             /\ UNCHANGED <<ws, headers, reconnectAttempts, reconnectTimeout, isConnecting,
                            isDisconnected, sockets, timers, currentPromptId>>]_vars

ClaimedDelay(n) == Min(3000 * Pow2(n - 1), 48000)

\* C11: when every connection attempt fails, the reconnect scheduled by the failure
\* of the n-th attempt (the n-th socket created) has a delay of
\* min(3000 * 2^(n-1), 48000) ms: 3000 after the first failure, then 6000, 12000, ...
C11_BackoffStartsAt3000 ==
    [][lastOp' = "fail" => \A t \in timers' \ timers : t.delay = ClaimedDelay(created)]_vars

\* n is value / max * 100 rounded to the nearest integer, a tie upwards
IsRounded(n, value, max) == 2 * max * n - max <= 200 * value /\ 200 * value < 2 * max * n + max

\* A progress event of the tracked job with 0 <= value <= max and max > 0
TrackedProgress(m) ==
    /\ m.kind = "json" /\ m.type = "progress" /\ m.hasData
    /\ m.prompt_id = currentPromptId
    /\ 0 <= m.value /\ m.value <= m.max /\ m.max > 0

Count(type) == Cardinality({i \in 1..Len(emitted) : emitted[i].type = type})

\* C13: when the /history/{id} response has no entry for the tracked job id, or the
\* entry lacks the image list of the save-image node, output resolution emits exactly
\* one error status, no 'completed' status and does not invoke onImageGenerated.
C13_MissingOutputIsError ==
    (lastOp = "historyResponse" /\ lastMsg.outcome \in {"no_entry", "no_output"})
    => /\ Count("error") = 1
       /\ Count("completed") = 0
       /\ Count("onImageGenerated") = 0
       /\ Count("throw") = 0

C13_Witness ==
    /\ lastOp = "historyResponse" /\ lastMsg.outcome = "no_entry"
    /\ lastMsg.prompt_id = currentPromptId
    /\ emitted = <<St("error", "not_found", 0)>>

\* The URL of the image with the endpoint of SettingsRemote, https://x.io/
RemoteViewUrl(info) ==
    Str_https \o Str_xio \o <<"/">> \o Str_view \o info.filename
    \o Str_subfolder \o info.subfolder \o Str_type \o info.type

\* C14: when output resolution finds an image descriptor (the response has one under
\* the tracked job id), it emits exactly one 'completed' status and then invokes
\* onImageGenerated exactly once with the URL built from the descriptor; in every
\* step a call of onImageGenerated directly follows a 'completed' status.
C14_CompletedThenImage ==
    /\ (lastOp = "historyResponse" /\ lastMsg.outcome = "image" /\ lastMsg.prompt_id = currentPromptId)
        => /\ Len(emitted) = 2
           /\ emitted[1] = St("completed", "completed", 0)
           /\ emitted[2].type = "onImageGenerated"
           /\ settings = SettingsRemote => emitted[2].url = RemoteViewUrl(lastMsg.imageInfo)
    /\ \A i \in 1..Len(emitted) :
          emitted[i].type = "onImageGenerated" => (i > 1 /\ emitted[i - 1].type = "completed")

C14_Witness ==
    /\ lastOp = "historyResponse" /\ lastMsg.outcome = "image"
    /\ lastMsg.imageInfo.subfolder = <<"d">>
    /\ Count("completed") = 1 /\ Count("onImageGenerated") = 1
    /\ emitted[2].url = RemoteViewUrl(lastMsg.imageInfo)

\* The host of a URL: what follows "://" up to the next ":" or "/"
RECURSIVE UpTo(_, _)
UpTo(s, stops) ==
    IF s = <<>> \/ s[1] \in stops THEN <<>> ELSE <<s[1]>> \o UpTo(Tail(s), stops)

AfterScheme(url) ==
    IF startsWith(url, Str_https) THEN SubSeq(url, Len(Str_https) + 1, Len(url))
    ELSE IF startsWith(url, Str_http) THEN SubSeq(url, Len(Str_http) + 1, Len(url))
    ELSE url

HostOf(url) == UpTo(AfterScheme(url), {":", "/"})

Digits == <<"0","1","2","3","4","5","6","7","8","9">>

\* The number that a string of decimal digits denotes, -1 for any other string
RECURSIVE ToNumber(_, _)
ToNumber(s, acc) ==
    IF s = <<>> THEN acc
    ELSE IF \E d \in 1..10 : Digits[d] = s[1]
    THEN ToNumber(Tail(s), 10 * acc + (CHOOSE d \in 1..10 : Digits[d] = s[1]) - 1)
    ELSE -1

Octet(s) == IF s = <<>> THEN -1 ELSE ToNumber(s, 0)

\* The first and the second label of a dotted host
FirstLabel(host) == UpTo(host, {"."})
SecondLabel(host) ==
    IF Len(FirstLabel(host)) < Len(host)
    THEN UpTo(SubSeq(host, Len(FirstLabel(host)) + 2, Len(host)), {"."})
    ELSE <<>>

\* The endpoint is a loopback address or lies in 10.0.0.0/8, 172.16.0.0/12 or
\* 192.168.0.0/16
IsLocalEndpoint(url) ==
    LET host == HostOf(url)
        o1 == Octet(FirstLabel(host))
        o2 == Octet(SecondLabel(host))
    IN \/ host = Str_localhost
       \/ o1 = 127
       \/ o1 = 10
       \/ o1 = 172 /\ o2 \in 16..31
       \/ o1 = 192 /\ o2 = 168

CarriesAuth(req) == req.headers.cfId # NoHeader \/ req.headers.cfSecret # NoHeader

\* C15: with settings whose baseUrl is a loopback address or in an RFC1918 private
\* range, no request of the client (submit, history, upload) carries an auth header.
C15_NoAuthToLocalEndpoint ==
    IsLocalEndpoint(settings.baseUrl) => \A i \in 1..Len(sent) : ~CarriesAuth(sent[i])

\* The settings ask for the credentials to be attached: the switch is on, both
\* credentials are non-empty and the endpoint is neither loopback nor private
ShouldAttach(s) ==
    /\ s.useCloudflareAccess = Str_true
    /\ s.cfAccessClientId # <<>>
    /\ s.cfAccessClientSecret # <<>>
    /\ ~IsLocalEndpoint(s.baseUrl)

\* C16: every request, JSON or upload, carries the two auth headers with the id and
\* the secret of the current settings exactly when the settings have the switch on,
\* both credentials non-empty and a non-local endpoint, and carries neither otherwise.
C16_RequestsAgreeOnAuth ==
    \A i \in 1..Len(sent) :
        IF ShouldAttach(settings)
        THEN /\ sent[i].headers.cfId = settings.cfAccessClientId
             /\ sent[i].headers.cfSecret = settings.cfAccessClientSecret
        ELSE ~CarriesAuth(sent[i])

\* The class types of the nodes of a graph
ClassTypes(graph) == {graph[n].class_type : n \in DOMAIN graph}

ImageClassTypes == {"LoadImage", "DreamORefEncode", "PreviewImage"}

\* C17: generateImage with a non-empty imageName submits a graph with a LoadImage
\* node for that image, a DreamORefEncode node that consumes it and a PreviewImage
\* node; with an empty imageName it submits a graph with none of the three.
C17_ImageBranchOnlyWithImage ==
    lastOp = "generateImage"
    => /\ Len(sent) = 1 /\ sent[1].body.kind = "json"
       /\ LET graph == sent[1].body.prompt
          IN IF lastMsg.imageName # <<>>
             THEN /\ ImageClassTypes \subseteq ClassTypes(graph)
                  /\ \E l \in DOMAIN graph, e \in DOMAIN graph :
                        /\ graph[l].class_type = "LoadImage" /\ graph[l].text = lastMsg.imageName
                        /\ graph[e].class_type = "DreamORefEncode"
                        /\ \E r \in graph[e].refs : r.node = l
             ELSE ImageClassTypes \cap ClassTypes(graph) = {}

C17_Witness ==
    /\ lastOp = "generateImage" /\ lastMsg.imageName = <<>>
    /\ Len(sent) = 1
    /\ "ApplyDreamO" \in ClassTypes(sent[1].body.prompt)
    /\ "LoadImage" \notin ClassTypes(sent[1].body.prompt)

\* C18: every failed submit throws to its caller: whatever the failure of the POST to
\* /prompt (network-classified or a backend validation error), generateImage emits
\* exactly one error status and then rejects.
C18_FailedSubmitThrows ==
    lastOp = "submitRejected"
    => /\ Len(emitted) = 2
       /\ emitted[1].type = "error"
       /\ emitted[2].type = "throw" /\ emitted[2].message = "generateImage"

\* The response body of a failed submit carries an error, a per-node error map, or both
Structured(failure) ==
    failure.axios /\ (truthy(failure.data.error) \/ failure.data.hasNodeErrors)

\* C19: for every failed submit whose response body carries an error object, a
\* per-node error map, or both, the error status of generateImage carries the
\* flattened message built from the main error and the node-level entries, never a
\* generic failure message.
C19_StructuredErrorIsFlattened ==
    (lastOp = "submitRejected" /\ Structured(lastMsg.failure))
    => /\ Count("error") = 1
       /\ emitted[1].type = "error"
       /\ emitted[1].message = "generation_failed_details"
       /\ emitted[1].text = validationMessage(lastMsg.failure.data)

\* The error messages of uploadImage, by what they say
UploadErrorClasses == {"server_not_found", "forbidden", "cannot_connect", "timed_out", "failed", "unknown"}

\* SettingsRemote's endpoint https://x.io/ joined with upload/image
RemoteUploadUrl == Str_https \o Str_xio \o <<"/">> \o Str_upload

\* C20: uploadImage emits an 'uploading' status and then issues one request; if the
\* request fails it emits exactly one error status, classified by the failure, and
\* then throws, without another request; if it succeeds it returns the name that the
\* server assigned and emits no error status.
C20_UploadReportsThenThrows ==
    /\ lastOp = "uploadImage"
        => /\ emitted = <<St("uploading", "uploading", 0)>>
           /\ Len(sent) = 1 /\ sent[1].method = "POST" /\ sent[1].after = 1
           /\ sent[1].body.kind = "form"
           /\ settings = SettingsRemote => sent[1].url = RemoteUploadUrl
    /\ lastOp = "uploadRejected"
        => /\ Len(emitted) = 2 /\ sent = <<>>
           /\ emitted[1].type = "error" /\ emitted[1].message \in UploadErrorClasses
           /\ emitted[2].type = "throw" /\ emitted[2].message = "uploadImage"
           /\ LET f == lastMsg.failure
              IN /\ ~f.axios => emitted[1].message = "unknown"
                 /\ (f.axios /\ f.status = 404) => emitted[1].message = "server_not_found"
                 /\ (f.axios /\ f.status = 403) => emitted[1].message = "forbidden"
                 /\ (f.axios /\ f.status \notin {403, 404} /\ f.code = "ECONNREFUSED")
                        => emitted[1].message = "cannot_connect"
                 /\ (f.axios /\ f.status \notin {403, 404} /\ f.code = "TIMEOUT")
                        => emitted[1].message = "timed_out"
    /\ lastOp = "uploadResolved"
        => /\ Len(emitted) = 1 /\ sent = <<>>
           /\ emitted[1].type = "return" /\ emitted[1].message = "uploadImage"
           /\ emitted[1].text = lastMsg.name

C20_Witness ==
    /\ lastOp = "uploadRejected"
    /\ lastMsg.failure.axios /\ lastMsg.failure.status = 403
    /\ emitted[1] = St("error", "forbidden", 0)
    /\ emitted[2].type = "throw"

\* A progress or completion event of job p
JobEvent(m, p) ==
    /\ m.kind = "json"
    /\ m.hasData
    /\ m.type = "progress" \/ (m.type = "executing" /\ m.node = Null)
    /\ m.prompt_id = p

\* The response of a later submission than that of job p has been processed
Replaced(p) ==
    \E n, m \in 1..issued : n < m /\ p = JobId(n) /\ JobId(m) \notin accepted

\* C21 as stated: from the call of generateImage for a new job on, the progress and
\* completion events of the previous job emit no status and start no output
\* resolution.
C21_LateEventsDroppedOnceCalled ==
    [][\A p \in JobIds :
        (/\ Replaced(p) \/ (p = currentPromptId /\ pendingSubmits > 0)
         /\ lastOp' = "message"
         /\ JobEvent(lastMsg', p))
        => emitted' = <<>> /\ sent' = <<>> /\ fetches' = fetches]_vars

\* C21 amended: once the response of the new submission has been processed, the
\* progress and completion events of the previous job emit no status, issue no
\* request and start no output resolution, so that they lead to no 'completed'
\* status and no onImageGenerated call.
C21_LateEventsDroppedOnceReplaced ==
    [][\A p \in JobIds :
        (Replaced(p) /\ lastOp' = "message" /\ JobEvent(lastMsg', p))
        => emitted' = <<>> /\ sent' = <<>> /\ fetches' = fetches]_vars

C21_Witness ==
    /\ lastOp = "message"
    /\ lastMsg.type = "executing"
    /\ JobEvent(lastMsg, "p1")
    /\ Replaced("p1")
    /\ currentPromptId = "p2"
    /\ fetches = <<>>

endsWith(s, suffix) ==
    Len(s) >= Len(suffix) /\ SubSeq(s, Len(s) - Len(suffix) + 1, Len(s)) = suffix

\* C22: the client id never changes, whatever the caller calls and whatever the
\* sockets and the timer do; the URL of every socket ends with ws?clientId= and that
\* id, and the body of every POST /prompt carries it as client_id.
C22_ClientIdConstantAndCarried ==
    /\ [][clientId' = clientId]_vars
    /\ [](\A s \in DOMAIN sockets : endsWith(sockets[s].url, Str_wsPath \o clientId))
    /\ [](\A i \in 1..Len(sent) :
            sent[i].body.kind = "json" => sent[i].body.client_id = clientId)

C22_Witness ==
    /\ clientId = <<"b">>
    /\ lastOp = "generateImage"
    /\ Len(sent) = 1
    /\ sent[1].body.client_id = <<"b">>
    /\ created = 2
    /\ \E s \in DOMAIN sockets : endsWith(sockets[s].url, Str_wsPath \o <<"b">>)
    /\ isDisconnected
    /\ currentPromptId # Null

\* C23: when a socket that the client did not close closes (the caller of this
\* specification never calls disconnect) and the retry counter is below the maximum,
\* the close handler leaves exactly one reconnect timer pending, the tracked one,
\* whatever the close code.
C23_EveryCloseSchedulesReconnect ==
    [][(lastOp' \in {"close", "fail"} /\ reconnectAttempts' < maxReconnectAttempts)
        => /\ Cardinality(timers') = 1
           /\ \E t \in timers' : t.id = reconnectTimeout']_vars

\* C24: the events of a socket that disconnect() closed are inert.  When such a
\* socket (closing by the client's close()) delivers its error and close events, no
\* status is emitted, no request is issued, no output resolution starts, and the
\* retry counter and the connecting flag keep their values.
C24_ClosedSocketEventsInert ==
    [][\A s \in DOMAIN sockets :
        (/\ sockets[s].readyState = "CLOSING"
         /\ s \notin DOMAIN sockets'
         /\ lastOp' \in {"close", "fail"})
        => /\ emitted' = <<>>
           /\ sent' = <<>>
           /\ fetches' = fetches
           /\ reconnectAttempts' = reconnectAttempts
           /\ isConnecting' = isConnecting]_vars

\* The output resolution of job p has ended with a status
Outcome(p) ==
    /\ lastOp = "historyResponse"
    /\ lastMsg.prompt_id = p
    /\ Count("completed") + Count("error") > 0

\* C25: whenever the completion event of a job that the server has queued, and that
\* no later job has replaced, is delivered by an open socket, the output resolution
\* of that job eventually ends with a 'completed' or an 'error' status, whether the
\* event comes before or after the response of the submission.
C25_CompletionLeadsToOutcome ==
    \A p \in JobIds :
        (lastOp = "message" /\ JobEvent(lastMsg, p) /\ ~Replaced(p)) ~> Outcome(p)

\* C26: when the history response holds the image of the job whose completion
\* event started the output resolution, the resolution ends with 'completed',
\* whatever was submitted while the request was awaited.
C26_LookupUnderRequestedJob ==
    (lastOp = "historyResponse" /\ lastMsg.outcome = "image")
        => Count("completed") = 1 /\ Count("error") = 0

\* C27: a job's image is handed to onImageGenerated at most once, and 'completed'
\* is emitted for it at most once.
C27_AtMostOneImagePerJob ==
    [][(lastOp' = "historyResponse"
        /\ \E i \in 1..Len(emitted') : emitted'[i].type \in {"completed", "onImageGenerated"})
        => lastMsg'.prompt_id \notin imaged]_vars

\* C28: in every reachable state the retry counter is at least 0 and at most
\* maxReconnectAttempts.
C28_RetryCounterBounded ==
    reconnectAttempts >= 0 /\ reconnectAttempts <= maxReconnectAttempts

\* A message that is not valid JSON, or a progress or executing event without its
\* data, or a progress event whose data lacks value and max
Malformed(m) ==
    \/ m.kind = "invalid_json"
    \/ /\ m.kind = "json"
       /\ m.type \in {"progress", "executing"}
       /\ ~m.hasData \/ (m.type = "progress" /\ (m.value = NaN \/ m.max = NaN))

\* C29: a malformed message (of the tracked job, where it names a job) emits
\* exactly one error status and nothing else happens: no request, the sockets and the timers are as before, and so are the
\* retry counter, the connecting flag, the tracked socket and the tracked job id.
C29_MalformedMessageIsOneError ==
    [][(/\ lastOp' = "message"
        /\ Malformed(lastMsg')
        /\ lastMsg'.hasData => lastMsg'.prompt_id = currentPromptId)
        => /\ Len(emitted') = 1
           /\ emitted'[1].type = "error"
           /\ sent' = <<>>
           /\ UNCHANGED <<sockets, timers, fetches, reconnectAttempts, reconnectTimeout,
                          isConnecting, isDisconnected, ws, currentPromptId>>]_vars

\* C30: right after updateSettings(ns) with ns different from the current settings
\* (the call is then recorded in lastCall as "updateSettings")
\* the stored settings are ns, the headers are those derived from ns, the retry
\* counter is 0, the explicit-disconnect flag and the connecting flag are false, no
\* socket is tracked and no reconnect timer is pending.
C30_StateAfterUpdateSettings ==
    [][(lastOp' = "updateSettings" /\ lastCall' = "updateSettings") =>
        \A ns \in AllSettings :
          Becomes(updateSettings(World, ns))
          => /\ settings' = ns
             /\ headers' = deriveHeaders(ns)
             /\ reconnectAttempts' = 0
             /\ ~isDisconnected'
             /\ ~isConnecting'
             /\ ws' = 0
             /\ timers' = {}]_vars

C30_Witness ==
    /\ lastOp = "updateSettings"
    /\ lastCall = "updateSettings"
    /\ cancelled # {}
    /\ settings = SettingsRemote
    /\ headers.cfId # NoHeader
    /\ \E s \in DOMAIN sockets : sockets[s].readyState = "CLOSING"
    /\ timers = {}

\* C31: the open event of a socket sets the retry counter to 0, clears the
\* connecting flag and emits exactly one status, 'connected'; a failure right after
\* an open is counted as the first attempt.
C31_OpenResetsRetryBudget ==
    [][/\ lastOp' = "open"
          => /\ reconnectAttempts' = 0
             /\ ~isConnecting'
             /\ emitted' = <<St("connected", "connected", 0)>>
       /\ (lastOp = "open" /\ lastOp' = "fail")
          => /\ reconnectAttempts' = 1
             /\ Len(emitted') >= 1
             /\ emitted'[1] = St("error", "ws_failed", 1)]_vars

C31_Witness ==
    /\ lastOp = "open"
    /\ reconnectAttempts = 0
    /\ abnormalRun = 0
    /\ created >= 3
    /\ Cardinality(DOMAIN sockets) = 1
    /\ timers = {}

\* C32: the error event of a socket increments the retry counter by exactly 1,
\* clears the connecting flag and emits exactly one error status, which carries the
\* incremented count; it schedules nothing.  The step of a failing socket is its
\* error event and then its close event: it is the close handler applied to the
\* state that the error event leaves according to the claim.
C32_ErrorEventCountsOnce ==
    [][lastOp' = "fail" =>
        \A s \in DOMAIN sockets \ DOMAIN sockets' :
            Becomes(onclose([World EXCEPT
                                !.sockets = Closed(@, s),
                                !.isConnecting = FALSE,
                                !.reconnectAttempts = reconnectAttempts + 1,
                                !.emitted = <<St("error", "ws_failed", reconnectAttempts + 1)>>],
                            1006))]_vars

C32_Witness ==
    /\ lastOp = "fail"
    /\ isDisconnected
    /\ reconnectAttempts = 2
    /\ timers = {}
    /\ emitted = <<St("error", "ws_failed", 2)>>

RemoteHistoryUrl(id) == Str_https \o Str_xio \o <<"/">> \o Str_history \o <<id>>

\* C33: an executing event with a null node and the id of the tracked job issues
\* exactly one request, GET /history/{tracked id}, starts one output resolution and
\* emits no status; an executing event with a node issues no request, starts no
\* output resolution and emits no status.
C33_CompletionStartsOneFetch ==
    [][(/\ lastOp' = "message"
        /\ lastMsg'.kind = "json"
        /\ lastMsg'.type = "executing"
        /\ lastMsg'.hasData)
        => /\ (lastMsg'.node = Null /\ currentPromptId \in JobIds
                                    /\ lastMsg'.prompt_id = currentPromptId)
              => /\ fetches' = Append(fetches, currentPromptId)
                 /\ Len(sent') = 1
                 /\ sent'[1].method = "GET"
                 /\ sent'[1].url = RemoteHistoryUrl(currentPromptId)
                 /\ emitted' = <<>>
           /\ lastMsg'.node # Null
              => /\ fetches' = fetches
                 /\ sent' = <<>>
                 /\ emitted' = <<>>]_vars

C33_Witness ==
    /\ lastOp = "message"
    /\ lastMsg.type = "executing"
    /\ lastMsg.node = Null
    /\ lastMsg.prompt_id = "p2"
    /\ currentPromptId = "p2"
    /\ fetches = <<"p2">>
    /\ Len(sent) = 1

\* C34: when the GET /history request of an output resolution fails, the step emits
\* exactly one error status and nothing else (no throw, no onImageGenerated), issues
\* no request, and leaves the sockets, the timers, the retry counter, the flags, the
\* tracked socket and the tracked job id as they were.
C34_HistoryFailureIsOneError ==
    [][(lastOp' = "historyResponse" /\ lastMsg'.outcome = "fail")
        => /\ emitted' = <<St("error", "retrieve_failed", 0)>>
           /\ sent' = <<>>
           /\ UNCHANGED <<sockets, timers, ws, reconnectAttempts, reconnectTimeout,
                          isConnecting, isDisconnected, currentPromptId>>]_vars

C34_Witness ==
    /\ lastOp = "historyResponse"
    /\ lastMsg.outcome = "fail"
    /\ ws # 0
    /\ sockets[ws].readyState = "OPEN"
    /\ Count("error") = 1

\* C35: the tracked job id changes only in the step that processes a successful
\* submit response, and then becomes the id that the server assigned last; every
\* other step (a failed submit, an upload and its outcome, connect, disconnect,
\* updateSettings, the timer and every socket event) leaves it unchanged.
C35_TrackedJobChangesOnSubmitOnly ==
    [][IF lastOp' = "submitResolved"
       THEN currentPromptId' \in JobIds /\ currentPromptId' = JobId(issued')
       ELSE currentPromptId' = currentPromptId]_vars

C35_Witness ==
    /\ currentPromptId = "p1"
    /\ lastOp = "updateSettings"
    /\ created = 2
    /\ reconnectAttempts = 0
    /\ uploads = 1

\* C36: with a backend that accepts every attempt, a call of connect() with a base
\* URL and the retry counter below the maximum is followed by a 'connected' status,
\* unless the caller calls disconnect() after it (or the run has used up the sockets
\* of this specification).
C36_ConnectLeadsToConnected ==
    (lastOp = "connect" /\ settings.baseUrl # <<>> /\ reconnectAttempts < maxReconnectAttempts)
    ~> \/ lastOp = "open" /\ Emitted("connected", "connected")
       \/ lastOp = "disconnect"
       \/ created >= MaxRetrySockets

\* C37: at most one reconnect timer is pending at any time, and a pending timer is
\* the one the client tracks in reconnectTimeout: no untracked timer is left that
\* could fire a connection attempt later
C37_OnePendingTrackedTimer ==
    /\ Cardinality(timers) <= 1
    /\ \A t \in timers : t.id = reconnectTimeout

\* a close schedules a reconnect while an earlier timer is still pending: the
\* earlier one is cancelled and the new one is tracked
C37_Witness ==
    /\ lastOp = "close"
    /\ cancelled # {}
    /\ Cardinality(timers) = 1
    /\ \E t \in timers : t.id = reconnectTimeout

\* A graph is closed under references and has the save-image node "9"
GraphClosed(graph) ==
    /\ "9" \in DOMAIN graph
    /\ \A n \in DOMAIN graph : \A r \in graph[n].refs : r.node \in DOMAIN graph

\* C38: for an empty and for a non-empty imageName the graph that is submitted is
\* closed under references: every input [nodeId, outputIndex] names a node of the
\* same graph, and the save-image node "9" that getGeneratedImage reads is present
C38_SubmittedGraphClosed ==
    /\ \A i \in DOMAIN sent :
          sent[i].body.kind = "json" => GraphClosed(sent[i].body.prompt)
    /\ lastOp = "generateImage"
       => /\ sent # <<>>
          /\ sent[Len(sent)].body.kind = "json"
          /\ (lastMsg.imageName = <<>>) = ("52" \notin DOMAIN sent[Len(sent)].body.prompt)

\* a graph submitted for an image: node "50" refers to the encoder "55", which
\* refers to the loader "52" of the image
C38_Witness ==
    /\ lastOp = "generateImage"
    /\ lastMsg.imageName # <<>>
    /\ LET graph == sent[Len(sent)].body.prompt
       IN /\ \E r \in graph["50"].refs : r.node = "55"
          /\ \E r \in graph["55"].refs : r.node = "52"
          /\ graph["9"].class_type = "SaveImage"

\* C39: after the user saved changed settings while a channel existed (the save
\* closed its socket), a connection attempt is started in the end without a
\* further action of the user: a reconnect timer fires (a call of connect() also
\* counts)
C39_SaveLeadsToReconnect ==
    (/\ lastOp = "updateSettings"
     /\ lastCall = "updateSettings"
     /\ \E s \in DOMAIN sockets : sockets[s].readyState = "CLOSING")
    ~> (lastOp = "timer" \/ lastOp = "connect")

\* C40: after a failed upload or submit while the channel is open, the Generate
\* button becomes enabled again
C40_FailureLeadsToGenerateEnabled ==
    (/\ lastOp \in {"uploadRejected", "submitRejected"}
     /\ ws \in DOMAIN sockets
     /\ sockets[ws].readyState = "OPEN")
    ~> ~(isLoading \/ ~isConnected)

====
